---- MODULE Spec2Model ----
(***************************************************************************)
(* State-machine model of the E*TRADE broker plugin (src/src/lib.rs and    *)
(* src/src/etrade.rs): the session state guarded by the STATE mutex, the   *)
(* four exported entry points, and the vendor calls they make through the  *)
(* transport executor.                                                     *)
(*                                                                         *)
(* Strings are TLA+ strings, built with \o where the code formats them.    *)
(* f64 amounts are integers (prices in hundredths).  Option<T> is a record *)
(* with a `some` flag.  Timestamps (Utc::now() in created_at, updated_at)  *)
(* are left out of the records; the one clock reading that reaches a       *)
(* value the callers see, the millisecond stamp in a rejected order's id,  *)
(* is an input.  In the OAuth signer strings are sequences of one-character *)
(* strings, so that sorting and percent-encoding work on their bytes.      *)
(***************************************************************************)
EXTENDS Integers, Sequences, FiniteSets, TLC

\* ------------------------------------------------------------------ bounds

\* Number of concurrent callers in SpecConc.
NumCallers == 2
\* Longest account list the vendor returns.
MaxAccounts == 2
\* Successful submissions after which no further submit_order is started.
MaxSubmits == 2
\* Longest parameter list handed to generate_oauth_signature.
MaxParams == 3

\* ------------------------------------------------------- program constants

HexWidth == 16
TimeoutMs == 30000

PRODUCTION_URL == "https://api.etrade.com"
SANDBOX_URL == "https://apisb.etrade.com"
AUTH_URL == "https://us.etrade.com/e/t/etws/authorize"
BROKER_ID == "broker-etrade"

\* ------------------------------------------------------------ Option, Result

None == [some |-> FALSE]
Some(v) == [some |-> TRUE, val |-> v]
unwrap_or(o, d) == IF o.some THEN o.val ELSE d

Ok(v) == [ok |-> TRUE, val |-> v]
Err(e) == [ok |-> FALSE, err |-> e]

\* ------------------------------------------------------------- formatting

Digit(d) ==
    CASE d = 0 -> "0" [] d = 1 -> "1" [] d = 2 -> "2" [] d = 3 -> "3"
      [] d = 4 -> "4" [] d = 5 -> "5" [] d = 6 -> "6" [] d = 7 -> "7"
      [] d = 8 -> "8" [] d = 9 -> "9" [] d = 10 -> "a" [] d = 11 -> "b"
      [] d = 12 -> "c" [] d = 13 -> "d" [] d = 14 -> "e" [] d = 15 -> "f"

RECURSIVE Decimal(_)
Decimal(n) == IF n < 10 THEN Digit(n) ELSE Decimal(n \div 10) \o Digit(n % 10)

\* i64::to_string / Display of an integer
to_string(n) == IF n < 0 THEN "-" \o Decimal(0 - n) ELSE Decimal(n)

RECURSIVE HexPad(_, _)
HexPad(n, width) ==
    IF width = 0 THEN "" ELSE HexPad(n \div 16, width - 1) \o Digit(n % 16)

\* format!("{:016x}", n)
Hex016(n) == HexPad(n, HexWidth)

\* format!("KL{:016x}", rand::random::<u64>())
ClientOrderId(r) == "KL" \o Hex016(r)

\* ------------------------------------------------------------------ inputs

\* initialize's configuration JSON: a field is None when the key is absent
\* or not of the expected JSON type.
Configs ==
    [consumer_key : {Some(""), Some("ckA"), Some("ckB")},
     consumer_secret : {None, Some("csA")},
     oauth_token : {None, Some("tokA")},
     oauth_token_secret : {None, Some("tsA")},
     is_sandbox : {None, Some(FALSE)}]

\* The order requests callers submit: a market buy of 10 AAPL.
OrderRequests ==
    {[symbol_id |-> "AAPL", side |-> "Buy", order_type |-> "Market",
      quantity |-> 10, limit_price |-> None, persona_id |-> "p1"]}

Requests ==
    [op : {"initialize"}, config : Configs]
      \cup {[op |-> "get_accounts"]}
      \cup [op : {"get_positions"}, account_id : {"A1"}]
      \cup [op : {"submit_order"}, account_id : {"A1"}, order : OrderRequests]

\* rand::random::<u64>() draws
RandomU64 == {0, 43981}
\* Utc::now().timestamp_millis() readings
NowMillis == {1730, 1731}

\* ------------------------------------------------- transport executor replies

\* A reply of the transport executor: status, error, and the body, which is
\* its text together with what serde makes of it for the expected type
\* (None when it does not deserialize).
Reply(status, error, text, parsed) ==
    [status |-> status, error |-> error,
     body |-> [text |-> text, parsed |-> parsed]]

FailedReplies ==
    {Reply(401, None, "unauthorized", None),
     Reply(0, Some("timeout"), "", None)}

MalformedReply == Reply(200, None, "<html>", None)

JsonReply(v) == Reply(200, None, "{json}", Some(v))

ETradeAccounts ==
    {[account_id |-> "A1", account_id_key |-> "k1", account_name |-> Some("Main")],
     [account_id |-> "", account_id_key |-> "k0", account_name |-> None]}

RECURSIVE SeqsUpTo(_, _)
SeqsUpTo(S, n) ==
    IF n = 0 THEN {<<>>}
    ELSE LET shorter == SeqsUpTo(S, n - 1)
         IN  shorter \cup {Append(s, x) : s \in {q \in shorter : Len(q) = n - 1}, x \in S}

AccountListReplies ==
    FailedReplies \cup {MalformedReply}
      \cup {JsonReply(l) : l \in SeqsUpTo(ETradeAccounts, MaxAccounts)}

RealTimeValues ==
    [total_account_value |-> Some(1000), net_mv |-> None, total_long_value |-> Some(250)]

BalanceReplies ==
    FailedReplies \cup {MalformedReply}
      \cup {JsonReply([computed |-> None]),
            JsonReply([computed |-> Some([real_time |-> None])]),
            JsonReply([computed |-> Some([real_time |-> Some(RealTimeValues)])])}

ETradePositions ==
    <<[symbol |-> "AAPL", quantity |-> Some(3), cost_per_share |-> Some(1000),
       total_gain |-> Some(600), total_gain_pct |-> Some(20),
       quick |-> Some([last_trade |-> Some(1200)])],
      [symbol |-> "MSFT", quantity |-> None, cost_per_share |-> Some(500),
       total_gain |-> None, total_gain_pct |-> None,
       quick |-> None],
      [symbol |-> "TSLA", quantity |-> Some(1), cost_per_share |-> None,
       total_gain |-> Some(0), total_gain_pct |-> Some(0),
       quick |-> Some([last_trade |-> None])],
      [symbol |-> "NVDA", quantity |-> Some(2), cost_per_share |-> Some(700),
       total_gain |-> None, total_gain_pct |-> None,
       quick |-> Some([last_trade |-> None])],
      [symbol |-> "AMD", quantity |-> Some(4), cost_per_share |-> None,
       total_gain |-> None, total_gain_pct |-> None,
       quick |-> None]>>

PortfolioReplies ==
    FailedReplies \cup {MalformedReply}
      \cup {JsonReply([response |-> None]),
            JsonReply([response |-> Some([account_portfolio |-> None])]),
            JsonReply([response |-> Some([account_portfolio |->
                Some(<<[position |-> None]>>)])]),
            JsonReply([response |-> Some([account_portfolio |->
                Some(<<[position |-> Some(ETradePositions)]>>)])])}

PlaceOrderReplies ==
    FailedReplies \cup {MalformedReply}
      \cup {JsonReply([order_ids |-> None]),
            JsonReply([order_ids |-> Some(<<>>)]),
            JsonReply([order_ids |-> Some(<<12345>>)]),
            JsonReply([order_ids |-> Some(<<12345, 7>>)])}

\* ------------------------------------------------------ signer arguments

\* The arguments of generate_oauth_signature.
\* The (key, value) pairs: a key with two values, a key that begins with
\* another, a key and a value that percent_encode has to escape.
ParamPairs ==
    {<< <<"a">>, <<"1">> >>, << <<"a">>, <<"2", "&">> >>,
     << <<"b">>, <<"1">> >>, << <<"a", "=">>, <<"1">> >>}
ParamLists == SeqsUpTo(ParamPairs, MaxParams)

SignMethods == {<<"G", "E", "T">>, <<"P", "O", "S", "T">>}
SignUrl ==
    <<"h", "t", "t", "p", "s", ":", "/", "/", "a", "p", "i", "s", "b", ".", "e", "t",
    "r", "a", "d", "e", ".", "c", "o", "m", "/", "v", "1", "/", "a", "c", "c", "o",
    "u", "n", "t", "s", "/", "l", "i", "s", "t">>
SignSecrets ==
    {[consumer_secret |-> <<"c", "s", "A">>, oauth_token_secret |-> <<"t", "/", "s">>],
     [consumer_secret |-> <<"c", "s", "A">>, oauth_token_secret |-> <<>>]}

\* ---------------------------------------------------------------- the state

VARIABLES
    client,         \* BrokerState.client : Option<ETradeClient>
    orders,         \* BrokerState.orders : HashMap<String, Order>
    next_order_id,  \* BrokerState.next_order_id
    lock,           \* the STATE mutex: 0 when free, else the caller holding it
    pc,             \* where each caller is
    req,            \* the request each caller parsed
    loc,            \* each caller's locals inside list_accounts / submit_order
    resp,           \* what the entry point returned to each caller
    inflight,       \* the request each caller has handed to the transport executor
    response,       \* the executor's reply to each caller's latest request
    httpLog,        \* the requests each caller's current call has issued
    sig_args,       \* generate_oauth_signature: the signer and the arguments
    sig_first,      \* what it built for the parameter list as given
    sig_again       \* what it built for the list in another order

vars == <<client, orders, next_order_id, lock, pc, req, loc, resp, inflight,
          response, httpLog, sig_args, sig_first, sig_again>>

\* The session and its callers; the signer under study on its own.
session_vars == <<client, orders, next_order_id, lock, pc, req, loc, resp, inflight,
                  response, httpLog>>
signer_vars == <<sig_args, sig_first, sig_again>>

\* The mutex is free.
Free == 0
Callers == 1 .. NumCallers

NoLocals == [accts |-> <<>>, i |-> 0, built |-> <<>>,
             balance |-> None, client_order_id |-> None]

\* ------------------------------------------------------- etrade.rs: client

\* Mutant: the two base URLs the wrong way round.
ETradeClient_new_Swapped(consumer_key, consumer_secret, oauth_token, oauth_token_secret, is_sandbox) ==
    [consumer_key |-> consumer_key,
     consumer_secret |-> consumer_secret,
     oauth_token |-> oauth_token,
     oauth_token_secret |-> oauth_token_secret,
     base_url |-> IF is_sandbox THEN PRODUCTION_URL ELSE SANDBOX_URL,
     is_sandbox |-> is_sandbox]

\* ETradeClient::new
ETradeClient_new(consumer_key, consumer_secret, oauth_token, oauth_token_secret, is_sandbox) ==
    [consumer_key |-> consumer_key,
     consumer_secret |-> consumer_secret,
     oauth_token |-> oauth_token,
     oauth_token_secret |-> oauth_token_secret,
     base_url |-> IF is_sandbox THEN SANDBOX_URL ELSE PRODUCTION_URL,
     is_sandbox |-> is_sandbox]

\* HttpResponse::is_success (crate::http)
is_success(r) == r.status >= 200 /\ r.status < 300

\* HttpResponse::json::<T> (crate::http)
json(r) == IF r.body.parsed.some THEN Ok(r.body.parsed.val) ELSE Err("JSON parse error")

\* What api_get / api_post make of the executor's reply.
api_result(r) ==
    IF ~is_success(r)
    THEN Err("API error " \o to_string(r.status) \o ": " \o unwrap_or(r.error, r.body.text))
    ELSE json(r)

\* The HttpRequest api_get hands to the executor.  `signer` stands for the
\* Authorization header: the credentials build_auth_header signs with.
api_get(c, path) ==
    [method |-> "GET", url |-> c.base_url \o path,
     signer |-> [consumer_key |-> c.consumer_key, consumer_secret |-> c.consumer_secret,
                 oauth_token |-> c.oauth_token, oauth_token_secret |-> c.oauth_token_secret],
     body |-> None, timeout_ms |-> TimeoutMs]

\* The HttpRequest api_post hands to the executor.
api_post(c, path, body) ==
    [method |-> "POST", url |-> c.base_url \o path,
     signer |-> [consumer_key |-> c.consumer_key, consumer_secret |-> c.consumer_secret,
                 oauth_token |-> c.oauth_token, oauth_token_secret |-> c.oauth_token_secret],
     body |-> Some(body), timeout_ms |-> TimeoutMs]

AccountListPath == "/v1/accounts/list"
BalancePath(key) == "/v1/accounts/" \o key \o "/balance?instType=BROKERAGE&realTimeNAV=true"
PortfolioPath(id) == "/v1/accounts/" \o id \o "/portfolio"
PlaceOrderPath(id) == "/v1/accounts/" \o id \o "/orders/place"

ZeroBalance ==
    [currency |-> "USD", total_equity |-> 0, available_cash |-> 0,
     buying_power |-> 0, locked_cash |-> 0]

\* get_account_details: the AccountBalance made of the balance call's result.
AccountBalanceOf(result) ==
    IF result.ok
    THEN LET rt == IF result.val.computed.some
                   THEN result.val.computed.val.real_time ELSE None
         IN  [currency |-> "USD",
              total_equity |-> IF rt.some THEN unwrap_or(rt.val.total_account_value, 0) ELSE 0,
              available_cash |-> IF rt.some THEN unwrap_or(rt.val.net_mv, 0) ELSE 0,
              buying_power |-> IF rt.some THEN unwrap_or(rt.val.total_long_value, 0) ELSE 0,
              locked_cash |-> 0]
    ELSE ZeroBalance

\* Mutant: the cost basis is preferred to the live quote.
PositionOf_CostFirst(pos) ==
    LET last_trade == IF pos.quick.some THEN pos.quick.val.last_trade ELSE None
        current_price == unwrap_or(IF pos.cost_per_share.some THEN pos.cost_per_share
                                   ELSE last_trade, 0)
    IN  [symbol_id |-> pos.symbol,
         quantity |-> unwrap_or(pos.quantity, 0),
         average_price |-> unwrap_or(pos.cost_per_share, 0),
         current_price |-> current_price,
         unrealized_pnl |-> unwrap_or(pos.total_gain, 0),
         unrealized_pnl_percent |-> unwrap_or(pos.total_gain_pct, 0)]

\* get_positions: one vendor position as a Position.
PositionOf(pos) ==
    LET last_trade == IF pos.quick.some THEN pos.quick.val.last_trade ELSE None
        current_price == unwrap_or(IF last_trade.some THEN last_trade ELSE pos.cost_per_share, 0)
    IN  [symbol_id |-> pos.symbol,
         quantity |-> unwrap_or(pos.quantity, 0),
         average_price |-> unwrap_or(pos.cost_per_share, 0),
         current_price |-> current_price,
         unrealized_pnl |-> unwrap_or(pos.total_gain, 0),
         unrealized_pnl_percent |-> unwrap_or(pos.total_gain_pct, 0)]

RECURSIVE PortfolioPositions(_)
\* get_positions: the positions of the portfolios, in order.
PortfolioPositions(portfolios) ==
    IF portfolios = <<>> THEN <<>>
    ELSE LET p == Head(portfolios)
             here == IF p.position.some
                     THEN [k \in 1 .. Len(p.position.val) |-> PositionOf(p.position.val[k])]
                     ELSE <<>>
         IN  here \o PortfolioPositions(Tail(portfolios))

\* ETradeClient::get_positions, given the result of its api_get.
get_positions_result(result) ==
    IF ~result.ok THEN result
    ELSE IF result.val.response.some /\ result.val.response.val.account_portfolio.some
         THEN Ok(PortfolioPositions(result.val.response.val.account_portfolio.val))
         ELSE Ok(<<>>)

\* Mutant: the account's id taken from its key.
AccountSummaryOf_KeyAsId(c, acct, balance, positions) ==
    [id |-> acct.account_id_key,
     name |-> unwrap_or(acct.account_name, "E*TRADE " \o acct.account_id),
     broker_id |-> BROKER_ID,
     is_paper |-> c.is_sandbox,
     balance |-> balance,
     positions |-> positions,
     extensions |-> Some([account_id_key |-> acct.account_id_key])]

\* list_accounts: the AccountSummary pushed for one vendor account.
AccountSummaryOf(c, acct, balance, positions) ==
    [id |-> acct.account_id,
     name |-> unwrap_or(acct.account_name, "E*TRADE " \o acct.account_id),
     broker_id |-> BROKER_ID,
     is_paper |-> c.is_sandbox,
     balance |-> balance,
     positions |-> positions,
     extensions |-> Some([account_id_key |-> acct.account_id_key])]

price_type(order_type) ==
    CASE order_type = "Market" -> "MARKET"
      [] order_type = "Limit" -> "LIMIT"
      [] order_type = "Stop" -> "STOP"
      [] order_type = "StopLimit" -> "STOP_LIMIT"

order_action(side) ==
    CASE side = "Buy" -> "BUY" [] side = "Sell" -> "SELL"

\* ETradeClient::submit_order: the PlaceOrderRequest body.
PlaceOrderRequest(order, client_order_id) ==
    [order_type |-> "EQ",
     client_order_id |-> client_order_id,
     order |-> <<[all_or_none |-> FALSE,
                  price_type |-> price_type(order.order_type),
                  order_term |-> "GOOD_FOR_DAY",
                  market_session |-> "REGULAR",
                  limit_price |-> order.limit_price,
                  instrument |-> <<[product |-> [security_type |-> "EQ",
                                                 symbol |-> order.symbol_id],
                                    order_action |-> order_action(order.side),
                                    quantity_type |-> "QUANTITY",
                                    quantity |-> order.quantity]>>]>>]

\* Mutant: the last vendor order id instead of the first.
PlacedOrderId_Last(order_ids, client_order_id) ==
    IF order_ids.some /\ order_ids.val # <<>>
    THEN to_string(order_ids.val[Len(order_ids.val)])
    ELSE client_order_id

\* ETradeClient::submit_order: the id of the placed order.
PlacedOrderId(order_ids, client_order_id) ==
    IF order_ids.some /\ order_ids.val # <<>>
    THEN to_string(order_ids.val[1])
    ELSE client_order_id

\* ETradeClient::submit_order: the Order returned after a successful placement.
PlacedOrder(placed, order, client_order_id) ==
    [id |-> PlacedOrderId(placed.order_ids, client_order_id),
     request |-> order,
     status |-> "Submitted",
     filled_quantity |-> 0,
     average_filled_price |-> None,
     extensions |-> Some([client_order_id |-> client_order_id]),
     persona_id |-> order.persona_id]

\* ---------------------------------------------------------- lib.rs: helpers

\* Mutant: the error message left out of the name.
create_error_account_NoMessage(error) ==
    [id |-> "error",
     name |-> "Error",
     broker_id |-> BROKER_ID,
     is_paper |-> TRUE,
     balance |-> ZeroBalance,
     positions |-> <<>>,
     extensions |-> None]

create_error_account(error) ==
    [id |-> "error",
     name |-> "Error: " \o error,
     broker_id |-> BROKER_ID,
     is_paper |-> TRUE,
     balance |-> ZeroBalance,
     positions |-> <<>>,
     extensions |-> None]

\* Mutant: the error order is built with the status of a placed one.
create_error_order_Submitted(r, error, millis) ==
    [id |-> "error_" \o to_string(millis),
     request |-> r.order,
     status |-> "Submitted",
     filled_quantity |-> 0,
     average_filled_price |-> None,
     extensions |-> Some([error |-> error]),
     persona_id |-> r.order.persona_id]

create_error_order(r, error, millis) ==
    [id |-> "error_" \o to_string(millis),
     request |-> r.order,
     status |-> "Rejected",
     filled_quantity |-> 0,
     average_filled_price |-> None,
     extensions |-> Some([error |-> error]),
     persona_id |-> r.order.persona_id]

\* Mutant: an existing entry is kept.
insert_IfAbsent(map, k, v) ==
    [x \in DOMAIN map \cup {k} |-> IF x \in DOMAIN map THEN map[x] ELSE v]

\* HashMap::insert
insert(map, k, v) == [x \in DOMAIN map \cup {k} |-> IF x = k THEN v ELSE map[x]]

\* ------------------------------------------------ etrade.rs: OAuth signer

\* The printable ASCII characters in byte order, from the space (byte 32);
\* the double quote, the backslash and the backtick are written by name.
Ascii ==
    <<" ", "!", "quote", "#", "$", "%", "&", "'", "(", ")", "*", "+",
      ",", "-", ".", "/", "0", "1", "2", "3", "4", "5", "6", "7",
      "8", "9", ":", ";", "<", "=", ">", "?", "@", "A", "B", "C",
      "D", "E", "F", "G", "H", "I", "J", "K", "L", "M", "N", "O",
      "P", "Q", "R", "S", "T", "U", "V", "W", "X", "Y", "Z", "[",
      "backslash", "]", "^", "_", "backtick", "a", "b", "c", "d", "e", "f", "g",
      "h", "i", "j", "k", "l", "m", "n", "o", "p", "q", "r", "s",
      "t", "u", "v", "w", "x", "y", "z", "{", "|", "}", "~">>

\* The byte of a character (str::bytes, and the order String::cmp goes by).
AsciiByte ==
    [c \in {Ascii[i] : i \in 1 .. Len(Ascii)} |->
        31 + CHOOSE i \in 1 .. Len(Ascii) : Ascii[i] = c]
Byte(c) == AsciiByte[c]

\* format!("{:02X}"): one upper-case hexadecimal digit.
UpperHexDigit(d) ==
    CASE d = 0 -> "0" [] d = 1 -> "1" [] d = 2 -> "2" [] d = 3 -> "3"
      [] d = 4 -> "4" [] d = 5 -> "5" [] d = 6 -> "6" [] d = 7 -> "7"
      [] d = 8 -> "8" [] d = 9 -> "9" [] d = 10 -> "A" [] d = 11 -> "B"
      [] d = 12 -> "C" [] d = 13 -> "D" [] d = 14 -> "E" [] d = 15 -> "F"

\* percent_encode: the bytes it copies as they are.
Unreserved(c) ==
    \/ Byte(c) \in Byte("A") .. Byte("Z")
    \/ Byte(c) \in Byte("a") .. Byte("z")
    \/ Byte(c) \in Byte("0") .. Byte("9")
    \/ c \in {"-", ".", "_", "~"}

RECURSIVE percent_encode(_)
percent_encode(s) ==
    IF s = <<>> THEN <<>>
    ELSE LET c == Head(s)
         IN  (IF Unreserved(c) THEN <<c>>
              ELSE <<"%", UpperHexDigit(Byte(c) \div 16), UpperHexDigit(Byte(c) % 16)>>)
                \o percent_encode(Tail(s))

\* str::to_uppercase, on ASCII.
to_uppercase(s) ==
    [k \in 1 .. Len(s) |->
        IF Byte(s[k]) \in Byte("a") .. Byte("z") THEN Ascii[Byte(s[k]) - 32 - 31] ELSE s[k]]

RECURSIVE StrLess(_, _)
\* a.cmp(b) is Less: the order of Strings, byte by byte.
StrLess(a, b) ==
    IF b = <<>> THEN FALSE
    ELSE IF a = <<>> THEN TRUE
    ELSE IF Head(a) # Head(b) THEN Byte(Head(a)) < Byte(Head(b))
    ELSE StrLess(Tail(a), Tail(b))

\* generate_oauth_signature: the comparison it sorts by, |a, b| a.0.cmp(&b.0).
PairLess(p, q) == StrLess(p[1], q[1])

RECURSIVE sort_by(_)
\* slice::sort_by: a stable sort, so pairs that compare equal keep the order
\* they came in.
sort_by(ps) ==
    IF ps = <<>> THEN <<>>
    ELSE LET sorted == sort_by(SubSeq(ps, 1, Len(ps) - 1))
             x == ps[Len(ps)]
             n == Cardinality({k \in 1 .. Len(sorted) : ~PairLess(x, sorted[k])})
         IN  SubSeq(sorted, 1, n) \o <<x>> \o SubSeq(sorted, n + 1, Len(sorted))

RECURSIVE join(_, _)
\* [String]::join
join(parts, sep) ==
    IF parts = <<>> THEN <<>>
    ELSE IF Len(parts) = 1 THEN parts[1]
    ELSE parts[1] \o sep \o join(Tail(parts), sep)

\* generate_oauth_signature: the parameter string
param_string(params) ==
    LET sorted_params == sort_by(params)
    IN  join([k \in 1 .. Len(sorted_params) |->
                percent_encode(sorted_params[k][1]) \o <<"=">>
                    \o percent_encode(sorted_params[k][2])],
             <<"&">>)

\* generate_oauth_signature: the signature base string
base_string(method, url, params) ==
    to_uppercase(method) \o <<"&">> \o percent_encode(url) \o <<"&">>
        \o percent_encode(param_string(params))

\* generate_oauth_signature: the HMAC key
signing_key(c) ==
    percent_encode(c.consumer_secret) \o <<"&">> \o percent_encode(c.oauth_token_secret)

\* BASE64(HMAC-SHA1(key, message)), kept as the pair it is computed from: the
\* same key and message give the same signature, different ones different
\* signatures.
HmacSha1Base64(key, message) == [hmac_sha1_key |-> key, message |-> message]

\* ETradeClient::generate_oauth_signature
generate_oauth_signature(c, method, url, params) ==
    HmacSha1Base64(signing_key(c), base_string(method, url, params))

\* What one call of generate_oauth_signature builds.
Signed(c, method, url, params) ==
    [params |-> params,
     param_string |-> param_string(params),
     base_string |-> base_string(method, url, params),
     signature |-> generate_oauth_signature(c, method, url, params)]

\* ------------------------------------------------------------------- Init

Init ==
    /\ client = None
    /\ orders = << >>
    /\ next_order_id = 1
    /\ lock = Free
    /\ pc = [t \in Callers |-> "idle"]
    /\ req = [t \in Callers |-> None]
    /\ loc = [t \in Callers |-> NoLocals]
    /\ resp = [t \in Callers |-> None]
    /\ inflight = [t \in Callers |-> None]
    /\ response = [t \in Callers |-> None]
    /\ httpLog = [t \in Callers |-> <<>>]
    /\ sig_args = None
    /\ sig_first = None
    /\ sig_again = None

\* ------------------------------------------------------- steps of a caller

\* The entry point returns `value` to caller t: the MutexGuard is dropped.
Return(t, value) ==
    /\ resp' = [resp EXCEPT ![t] = Some(value)]
    /\ pc' = [pc EXCEPT ![t] = "returned"]
    /\ loc' = [loc EXCEPT ![t] = NoLocals]
    /\ inflight' = [inflight EXCEPT ![t] = None]
    /\ lock' = Free
    /\ UNCHANGED signer_vars

\* Caller t hands `request` to the transport executor and blocks at `label`.
Execute(t, request, label, locals) ==
    /\ inflight' = [inflight EXCEPT ![t] = Some(request)]
    /\ httpLog' = [httpLog EXCEPT ![t] = Append(@, request)]
    /\ pc' = [pc EXCEPT ![t] = label]
    /\ loc' = [loc EXCEPT ![t] = locals]
    /\ UNCHANGED <<lock, resp>>
    /\ UNCHANGED signer_vars

\* execute() returns reply r to caller t.
Received(t, r) ==
    /\ inflight[t].some
    /\ response' = [response EXCEPT ![t] = Some(r)]

\* parse_request: caller t enters an entry point with request r.
Enter(t, R) ==
    /\ pc[t] = "idle"
    /\ \E r \in R :
        /\ r.op = "submit_order" => next_order_id <= MaxSubmits
        /\ req' = [req EXCEPT ![t] = Some(r)]
    /\ pc' = [pc EXCEPT ![t] = "parsed"]
    /\ UNCHANGED <<client, orders, next_order_id, lock, loc, resp, inflight,
                   response, httpLog>>
    /\ UNCHANGED signer_vars

\* Mutant: the lock is taken whether or not it is held.
Lock_NoWait(t) ==
    /\ pc[t] = "parsed"
    /\ lock' = t
    /\ pc' = [pc EXCEPT ![t] = "locked"]
    /\ UNCHANGED <<client, orders, next_order_id, req, loc, resp, inflight,
                   response, httpLog>>
    /\ UNCHANGED signer_vars

\* STATE.lock().unwrap(): blocks while another caller holds the mutex.
Lock(t) ==
    /\ pc[t] = "parsed"
    /\ lock = Free
    /\ lock' = t
    /\ pc' = [pc EXCEPT ![t] = "locked"]
    /\ UNCHANGED <<client, orders, next_order_id, req, loc, resp, inflight,
                   response, httpLog>>
    /\ UNCHANGED signer_vars

\* Mutant: the two checks joined by "and".
missing_config_Both(consumer_key, consumer_secret) ==
    consumer_key = "" /\ consumer_secret = ""

\* initialize: the configuration is rejected
missing_config(consumer_key, consumer_secret) ==
    consumer_key = "" \/ consumer_secret = ""

\* initialize: both OAuth tokens are there
has_tokens(oauth_token, oauth_token_secret) ==
    oauth_token.some /\ oauth_token_secret.some

\* initialize's three responses
missing_config_response ==
    [success |-> FALSE,
     error |-> "Missing required configuration: consumer_key or consumer_secret"]

initialized_response(is_sandbox) ==
    [success |-> TRUE,
     message |-> "E*TRADE plugin initialized ("
                    \o (IF is_sandbox THEN "sandbox" ELSE "production") \o ")"]

\* Mutant: the authorization URL left out.
auth_required_response_NoUrl ==
    [success |-> TRUE,
     message |-> "E*TRADE plugin initialized. OAuth authorization required.",
     requires_auth |-> TRUE]

auth_required_response ==
    [success |-> TRUE,
     message |-> "E*TRADE plugin initialized. OAuth authorization required.",
     requires_auth |-> TRUE,
     auth_url |-> AUTH_URL]

\* initialize, after the lock is taken
initialize(t) ==
    /\ pc[t] = "locked"
    /\ req[t].val.op = "initialize"
    /\ LET config == req[t].val.config
           consumer_key == unwrap_or(config.consumer_key, "")
           consumer_secret == unwrap_or(config.consumer_secret, "")
           oauth_token == config.oauth_token
           oauth_token_secret == config.oauth_token_secret
           is_sandbox == unwrap_or(config.is_sandbox, TRUE)
       IN  IF missing_config(consumer_key, consumer_secret)
           THEN /\ Return(t, missing_config_response)
                /\ UNCHANGED client
           ELSE IF has_tokens(oauth_token, oauth_token_secret)
           THEN /\ client' = Some(ETradeClient_new(consumer_key, consumer_secret,
                                    oauth_token.val, oauth_token_secret.val, is_sandbox))
                /\ Return(t, initialized_response(is_sandbox))
           ELSE /\ Return(t, auth_required_response)
                /\ UNCHANGED client
    /\ UNCHANGED <<orders, next_order_id, req, response, httpLog>>

\* get_accounts, from the lock to list_accounts' account-list call
get_accounts(t) ==
    /\ pc[t] = "locked"
    /\ req[t].val.op = "get_accounts"
    /\ IF ~client.some
       THEN /\ Return(t, [accounts |->
                    <<create_error_account("Plugin not initialized or OAuth not completed")>>])
            /\ UNCHANGED httpLog
       ELSE Execute(t, api_get(client.val, AccountListPath), "list_accounts", NoLocals)
    /\ UNCHANGED <<client, orders, next_order_id, req, response>>

\* get_account_details begins for account i of accts: the balance call
BalanceCall(t, accts, i, built) ==
    Execute(t, api_get(client.val, BalancePath(accts[i].account_id_key)), "balance",
            [NoLocals EXCEPT !.accts = accts, !.i = i, !.built = built])

\* list_accounts: the account-list call returns
list_accounts(t, Replies) ==
    /\ pc[t] = "list_accounts"
    /\ \E r \in Replies :
        /\ Received(t, r)
        /\ LET result == api_result(r)
           IN  IF ~result.ok
               THEN /\ Return(t, [accounts |-> <<create_error_account(result.err)>>])
                    /\ UNCHANGED httpLog
               ELSE IF result.val = <<>>
               THEN /\ Return(t, [accounts |-> <<>>])
                    /\ UNCHANGED httpLog
               ELSE BalanceCall(t, result.val, 1, <<>>)
    /\ UNCHANGED <<client, orders, next_order_id, req>>

\* get_account_details: the balance call returns, the portfolio call is made
account_balance(t, Replies) ==
    /\ pc[t] = "balance"
    /\ \E r \in Replies :
        /\ Received(t, r)
        /\ LET balance == AccountBalanceOf(api_result(r))
               acct == loc[t].accts[loc[t].i]
           IN  Execute(t, api_get(client.val, PortfolioPath(acct.account_id_key)), "portfolio",
                       [loc[t] EXCEPT !.balance = Some(balance)])
    /\ UNCHANGED <<client, orders, next_order_id, req>>

\* get_account_details: the portfolio call returns; list_accounts pushes the
\* account and goes on to the next one, or returns
account_positions(t, Replies) ==
    /\ pc[t] = "portfolio"
    /\ \E r \in Replies :
        /\ Received(t, r)
        /\ LET got == get_positions_result(api_result(r))
               positions == IF got.ok THEN got.val ELSE <<>>
               acct == loc[t].accts[loc[t].i]
               built == Append(loc[t].built,
                               AccountSummaryOf(client.val, acct, loc[t].balance.val, positions))
           IN  IF loc[t].i = Len(loc[t].accts)
               THEN /\ Return(t, [accounts |-> built])
                    /\ UNCHANGED httpLog
               ELSE BalanceCall(t, loc[t].accts, loc[t].i + 1, built)
    /\ UNCHANGED <<client, orders, next_order_id, req>>

\* get_positions, from the lock to the portfolio call
get_positions(t) ==
    /\ pc[t] = "locked"
    /\ req[t].val.op = "get_positions"
    /\ IF ~client.some
       THEN /\ Return(t, [positions |-> <<>>])
            /\ UNCHANGED httpLog
       ELSE Execute(t, api_get(client.val, PortfolioPath(req[t].val.account_id)),
                    "get_positions", NoLocals)
    /\ UNCHANGED <<client, orders, next_order_id, req, response>>

\* Mutant: a portfolio call that failed is made once more.
positions_reply_Retry(t, Replies) ==
    /\ pc[t] = "get_positions"
    /\ \E r \in Replies :
        /\ Received(t, r)
        /\ LET got == get_positions_result(api_result(r))
           IN  IF ~got.ok /\ Len(httpLog[t]) < 2
               THEN Execute(t, inflight[t].val, "get_positions", NoLocals)
               ELSE /\ Return(t, [positions |-> IF got.ok THEN got.val ELSE <<>>])
                    /\ UNCHANGED httpLog
    /\ UNCHANGED <<client, orders, next_order_id, req>>

\* get_positions: the portfolio call returns
positions_reply(t, Replies) ==
    /\ pc[t] = "get_positions"
    /\ \E r \in Replies :
        /\ Received(t, r)
        /\ LET got == get_positions_result(api_result(r))
           IN  Return(t, [positions |-> IF got.ok THEN got.val ELSE <<>>])
    /\ UNCHANGED <<client, orders, next_order_id, req, httpLog>>

\* submit_order, from the lock to the order-placement call
submit_order(t) ==
    /\ pc[t] = "locked"
    /\ req[t].val.op = "submit_order"
    /\ IF ~client.some
       THEN /\ \E millis \in NowMillis :
                 Return(t, [order |-> create_error_order(req[t].val, "Plugin not initialized", millis)])
            /\ UNCHANGED httpLog
       ELSE \E random \in RandomU64 :
              LET client_order_id == ClientOrderId(random)
              IN  Execute(t, api_post(client.val, PlaceOrderPath(req[t].val.account_id),
                                      PlaceOrderRequest(req[t].val.order, client_order_id)),
                          "submit_order",
                          [NoLocals EXCEPT !.client_order_id = Some(client_order_id)])
    /\ UNCHANGED <<client, orders, next_order_id, req, response>>

\* submit_order: the order-placement call returns
order_reply(t, Replies) ==
    /\ pc[t] = "submit_order"
    /\ \E r \in Replies :
        /\ Received(t, r)
        /\ LET result == api_result(r)
           IN  IF result.ok
               THEN LET placed == PlacedOrder(result.val, req[t].val.order,
                                              loc[t].client_order_id.val)
                        order == IF placed.persona_id = ""
                                 THEN [placed EXCEPT !.persona_id = req[t].val.order.persona_id]
                                 ELSE placed
                    IN  /\ orders' = insert(orders, order.id, order)
                        /\ next_order_id' = next_order_id + 1
                        /\ Return(t, [order |-> order])
               ELSE /\ \E millis \in NowMillis :
                         Return(t, [order |-> create_error_order(req[t].val, result.err, millis)])
                    /\ UNCHANGED <<orders, next_order_id>>
    /\ UNCHANGED <<client, req, httpLog>>

\* The caller takes the response and is ready for its next call.
Resume(t) ==
    /\ pc[t] = "returned"
    /\ pc' = [pc EXCEPT ![t] = "idle"]
    /\ req' = [req EXCEPT ![t] = None]
    /\ resp' = [resp EXCEPT ![t] = None]
    /\ response' = [response EXCEPT ![t] = None]
    /\ httpLog' = [httpLog EXCEPT ![t] = <<>>]
    /\ UNCHANGED <<client, orders, next_order_id, lock, loc, inflight>>
    /\ UNCHANGED signer_vars

\* --------------------------------------------------------- specifications

\* One caller making call after call.
Main == CHOOSE t \in Callers : \A u \in Callers : t <= u

Next ==
    \/ Enter(Main, Requests)
    \/ Lock(Main)
    \/ initialize(Main)
    \/ get_accounts(Main)
    \/ list_accounts(Main, AccountListReplies)
    \/ account_balance(Main, BalanceReplies)
    \/ account_positions(Main, PortfolioReplies)
    \/ get_positions(Main)
    \/ positions_reply(Main, PortfolioReplies)
    \/ submit_order(Main)
    \/ order_reply(Main, PlaceOrderReplies)
    \/ Resume(Main)

Spec == Init /\ [][Next]_vars

\* Several callers, each making one call, on a session that is Uninitialized
\* or was authenticated by an earlier initialize call.  The locking does not
\* depend on what the payloads hold, so the callers draw from a part of the
\* requests and the executor from a part of the replies.
ConcRequests ==
    {r \in Requests :
        /\ r.op = "initialize" =>
              /\ r.config.consumer_key = Some("ckB")
              /\ r.config.consumer_secret = Some("csA")
              /\ r.config.oauth_token = Some("tokA")
              /\ r.config.is_sandbox = Some(FALSE)}

ConcAccountListReplies ==
    {r \in AccountListReplies :
        \/ r.status = 401
        \/ /\ r.body.parsed.some
           /\ Len(r.body.parsed.val) = 1
           /\ r.body.parsed.val[1].account_id = "A1"}

ConcBalanceReplies ==
    {r \in BalanceReplies :
        \/ r.status = 401
        \/ r.body.parsed = Some([computed |-> Some([real_time |-> Some(RealTimeValues)])])}

ConcPortfolioReplies ==
    {r \in PortfolioReplies :
        \/ r.status = 401
        \/ /\ r.body.parsed.some
           /\ r.body.parsed.val.response.some
           /\ r.body.parsed.val.response.val.account_portfolio.some}

ConcPlaceOrderReplies ==
    {r \in PlaceOrderReplies :
        \/ r.status = 401
        \/ /\ r.body.parsed.some
           /\ r.body.parsed.val.order_ids \in {None, Some(<<12345>>)}}

InitConc ==
    /\ client \in {None, Some(ETradeClient_new("ckA", "csA", "tokA", "tsA", TRUE))}
    /\ orders = << >>
    /\ next_order_id = 1
    /\ lock = Free
    /\ pc = [t \in Callers |-> "idle"]
    /\ req = [t \in Callers |-> None]
    /\ loc = [t \in Callers |-> NoLocals]
    /\ resp = [t \in Callers |-> None]
    /\ inflight = [t \in Callers |-> None]
    /\ response = [t \in Callers |-> None]
    /\ httpLog = [t \in Callers |-> <<>>]
    /\ sig_args = None
    /\ sig_first = None
    /\ sig_again = None

NextConc ==
    \E t \in Callers :
        \/ Enter(t, ConcRequests)
        \/ Lock(t)
        \/ initialize(t)
        \/ get_accounts(t)
        \/ list_accounts(t, ConcAccountListReplies)
        \/ account_balance(t, ConcBalanceReplies)
        \/ account_positions(t, ConcPortfolioReplies)
        \/ get_positions(t)
        \/ positions_reply(t, ConcPortfolioReplies)
        \/ submit_order(t)
        \/ order_reply(t, ConcPlaceOrderReplies)

SpecConc == InitConc /\ [][NextConc]_vars

\* The signer on its own: generate_oauth_signature is given a signer, a
\* method, a URL and a parameter list, and is called on the list as given
\* and then on the same list in some order.
InitSign ==
    /\ client = None
    /\ orders = << >>
    /\ next_order_id = 1
    /\ lock = Free
    /\ pc = [t \in Callers |-> "idle"]
    /\ req = [t \in Callers |-> None]
    /\ loc = [t \in Callers |-> NoLocals]
    /\ resp = [t \in Callers |-> None]
    /\ inflight = [t \in Callers |-> None]
    /\ response = [t \in Callers |-> None]
    /\ httpLog = [t \in Callers |-> <<>>]
    /\ \E c \in SignSecrets, method \in SignMethods, params \in ParamLists :
          sig_args = Some([signer |-> c, method |-> method, url |-> SignUrl,
                           params |-> params])
    /\ sig_first = None
    /\ sig_again = None

\* generate_oauth_signature on the parameter list as given
SignAsGiven ==
    /\ sig_first = None
    /\ LET a == sig_args.val
       IN  sig_first' = Some(Signed(a.signer, a.method, a.url, a.params))
    /\ UNCHANGED <<sig_args, sig_again>>
    /\ UNCHANGED session_vars

\* generate_oauth_signature on the same parameters in another order
SignReordered ==
    /\ sig_first # None
    /\ sig_again = None
    /\ LET a == sig_args.val
       IN  \E order \in Permutations(1 .. Len(a.params)) :
              sig_again' = Some(Signed(a.signer, a.method, a.url,
                                      [k \in 1 .. Len(a.params) |-> a.params[order[k]]]))
    /\ UNCHANGED <<sig_args, sig_first>>
    /\ UNCHANGED session_vars

NextSign == SignAsGiven \/ SignReordered

SpecSign == InitSign /\ [][NextSign]_vars

\* ------------------------------------------------------------------ claims

\* Caller t has returned from entry point op.
Returned(t, op) == pc[t] = "returned" /\ req[t].val.op = op

\* Caller t, holding the lock, runs entry point op to its return in this step.
ReturnsNow(t, op) ==
    pc[t] \notin {"idle", "parsed", "returned"} /\ req[t].val.op = op /\ pc'[t] = "returned"

\* The configuration carries a non-empty consumer_key, a non-empty
\* consumer_secret and both OAuth tokens.
CarriesFullCredentials(config) ==
    /\ config.consumer_key.some /\ config.consumer_key.val # ""
    /\ config.consumer_secret.some /\ config.consumer_secret.val # ""
    /\ config.oauth_token.some
    /\ config.oauth_token_secret.some

CarriesKeyAndSecret(config) ==
    /\ config.consumer_key.some /\ config.consumer_key.val # ""
    /\ config.consumer_secret.some /\ config.consumer_secret.val # ""

\* The response reports that interactive OAuth authorization is required.
ReportsAuthRequired(r) ==
    /\ r.success = TRUE
    /\ DOMAIN r = {"success", "message", "requires_auth", "auth_url"}
    /\ r.requires_auth = TRUE
    /\ r.auth_url = "https://us.etrade.com/e/t/etws/authorize"

\* C1: the session goes from Uninitialized to Authenticated only in a step in
\* which an initialize call carrying a non-empty consumer_key, a non-empty
\* consumer_secret and both OAuth tokens returns; no other step (get_accounts,
\* get_positions, submit_order, an initialize lacking any of these) does it.
\* The session starts Uninitialized, so it is Authenticated only after such a call.
C1_AuthenticatedOnlyByFullInitialize ==
    [][(~client.some /\ client'.some) =>
          \E t \in Callers :
              /\ ReturnsNow(t, "initialize")
              /\ CarriesFullCredentials(req[t].val.config)]_vars

\* An initialize call with full credentials has authenticated the session.
C1_Witness ==
    /\ Returned(Main, "initialize")
    /\ CarriesFullCredentials(req[Main].val.config)
    /\ client.some
    /\ client.val.consumer_key = req[Main].val.config.consumer_key.val

\* C2 as stated: after any initialize call without full credentials the
\* session is Uninitialized and the call reported success, that authorization
\* is required, and the authorization URL.
C2_IncompleteInitializeAsStated ==
    \A t \in Callers :
        (Returned(t, "initialize") /\ ~CarriesFullCredentials(req[t].val.config))
            => (~client.some /\ ReportsAuthRequired(resp[t].val))

\* C2 as amended: an initialize call without full credentials leaves the
\* session as it was (Uninitialized stays Uninitialized, an Authenticated
\* session keeps its client).  With a non-empty consumer_key and consumer_secret
\* but a token missing, it returns success with the report that authorization
\* is required and the fixed URL; with consumer_key or consumer_secret missing
\* or empty, it returns success = false with an error message and no URL.
C2_IncompleteInitializeAmended ==
    [][\A t \in Callers :
          (ReturnsNow(t, "initialize") /\ ~CarriesFullCredentials(req[t].val.config))
              => /\ client' = client
                 /\ IF CarriesKeyAndSecret(req[t].val.config)
                    THEN ReportsAuthRequired(resp'[t].val)
                    ELSE /\ resp'[t].val.success = FALSE
                         /\ DOMAIN resp'[t].val = {"success", "error"}
                         /\ resp'[t].val.error # ""]_vars

\* An initialize call with key and secret but a token missing has returned.
C2_Witness ==
    /\ Returned(Main, "initialize")
    /\ CarriesKeyAndSecret(req[Main].val.config)
    /\ ~req[Main].val.config.oauth_token_secret.some
    /\ ReportsAuthRequired(resp[Main].val)
    /\ ~client.some

\* C3: while the session is Uninitialized no request goes to the transport
\* executor, and a get_accounts, get_positions or submit_order call that
\* returns has returned its error-shaped default: one account with id
\* "error", no positions, an order with status Rejected and an error message.
C3_UninitializedCallsReturnDefaults ==
    ~client.some =>
        \A t \in Callers :
            /\ ~inflight[t].some
            /\ httpLog[t] = <<>>
            /\ Returned(t, "get_accounts") =>
                  /\ Len(resp[t].val.accounts) = 1
                  /\ resp[t].val.accounts[1].id = "error"
            /\ Returned(t, "get_positions") => resp[t].val.positions = <<>>
            /\ Returned(t, "submit_order") =>
                  /\ resp[t].val.order.status = "Rejected"
                  /\ resp[t].val.order.extensions.some
                  /\ resp[t].val.order.extensions.val.error = "Plugin not initialized"
                  /\ resp[t].val.order.request = req[t].val.order

\* A submit_order call on an Uninitialized session has been rejected.
C3_Witness ==
    /\ ~client.some
    /\ Returned(Main, "submit_order")
    /\ resp[Main].val.order.status = "Rejected"
    /\ httpLog[Main] = <<>>

\* The executor's reply is a success whose body deserializes.
CallSucceeded(r) == r.status \in 200 .. 299 /\ r.body.parsed.some

\* C4 as stated: the account list get_accounts returns is never empty and
\* every account in it has a non-empty id.
C4_AccountsNeverEmptyAsStated ==
    \A t \in Callers :
        Returned(t, "get_accounts") =>
            /\ resp[t].val.accounts # <<>>
            /\ \A k \in 1 .. Len(resp[t].val.accounts) : resp[t].val.accounts[k].id # ""

RECURSIVE VendorRows(_)
\* The position rows of a vendor portfolio list, in order.
VendorRows(portfolios) ==
    IF portfolios = <<>> THEN <<>>
    ELSE (IF Head(portfolios).position.some THEN Head(portfolios).position.val ELSE <<>>)
            \o VendorRows(Tail(portfolios))

\* The position rows a portfolio reply carries (none when it failed).
ReplyRows(r) ==
    IF CallSucceeded(r) /\ r.body.parsed.val.response.some
          /\ r.body.parsed.val.response.val.account_portfolio.some
    THEN VendorRows(r.body.parsed.val.response.val.account_portfolio.val)
    ELSE <<>>

\* The real-time values a balance reply carries, if any.
ReplyRealTime(r) ==
    IF CallSucceeded(r) /\ r.body.parsed.val.computed.some
    THEN r.body.parsed.val.computed.val.real_time
    ELSE None

AllZero(b) ==
    b.total_equity = 0 /\ b.available_cash = 0 /\ b.buying_power = 0 /\ b.locked_cash = 0

\* Accounts 1..n of the list under construction are the vendor's, in order.
InVendorOrder(built, accts, n) ==
    /\ Len(built) = n
    /\ \A k \in 1 .. n : built[k].id = accts[k].account_id

\* C5: once the account-list call has succeeded with N accounts, list_accounts
\* returns exactly those N accounts in vendor order whatever the sub-calls do:
\* a failed balance call gives the account an all-zero balance, a failed
\* portfolio call gives it no positions, a sub-call that succeeds gives it
\* the vendor's values, and pushing an account leaves the accounts pushed
\* before it as they were.
C5_SubCallFailuresAreTolerated ==
    [][\A t \in Callers :
          /\ (pc[t] = "list_accounts" /\ CallSucceeded(response'[t].val)) =>
                LET accts == response'[t].val.body.parsed.val
                IN  IF accts = <<>>
                    THEN pc'[t] = "returned" /\ resp'[t].val.accounts = <<>>
                    ELSE /\ pc'[t] = "balance"
                         /\ loc'[t].accts = accts
                         /\ loc'[t].i = 1
                         /\ loc'[t].built = <<>>
          /\ pc[t] = "balance" /\ pc'[t] # "balance" =>
                LET reply == response'[t].val
                    rt == ReplyRealTime(reply)
                    balance == loc'[t].balance.val
                IN  /\ pc'[t] = "portfolio"
                    /\ loc'[t].accts = loc[t].accts
                    /\ loc'[t].i = loc[t].i
                    /\ loc'[t].built = loc[t].built
                    /\ ~CallSucceeded(reply) => AllZero(balance)
                    /\ rt.some =>
                          /\ balance.total_equity = unwrap_or(rt.val.total_account_value, 0)
                          /\ balance.available_cash = unwrap_or(rt.val.net_mv, 0)
                          /\ balance.buying_power = unwrap_or(rt.val.total_long_value, 0)
          /\ pc[t] = "portfolio" /\ pc'[t] # "portfolio" =>
                LET reply == response'[t].val
                    accts == loc[t].accts
                    i == loc[t].i
                    out == IF pc'[t] = "returned" THEN resp'[t].val.accounts
                           ELSE loc'[t].built
                IN  /\ pc'[t] = IF i = Len(accts) THEN "returned" ELSE "balance"
                    /\ pc'[t] = "balance" => loc'[t].accts = accts /\ loc'[t].i = i + 1
                    /\ InVendorOrder(out, accts, i)
                    /\ \A k \in 1 .. i - 1 : out[k] = loc[t].built[k]
                    /\ out[i].balance = loc[t].balance.val
                    /\ ~CallSucceeded(reply) => out[i].positions = <<>>
                    /\ Len(out[i].positions) = Len(ReplyRows(reply))
                    /\ \A k \in 1 .. Len(out[i].positions) :
                          out[i].positions[k].symbol_id = ReplyRows(reply)[k].symbol]_vars

\* get_accounts has returned two accounts: the first with the vendor's balance
\* and positions, the second, whose portfolio call failed, with no positions.
C5_Witness ==
    /\ Returned(Main, "get_accounts")
    /\ Len(resp[Main].val.accounts) = 2
    /\ resp[Main].val.accounts[1].balance.total_equity = 1000
    /\ resp[Main].val.accounts[1].positions # <<>>
    /\ ~CallSucceeded(response[Main].val)
    /\ resp[Main].val.accounts[2].positions = <<>>
    /\ AllZero(resp[Main].val.accounts[2].balance)

\* The decimal form of the vendor's order ids, and the client tokens of the
\* random draws, written out.
DecimalText(n) == CASE n = 12345 -> "12345" [] n = 7 -> "7"
ClientTokens == {"KL0000000000000000", "KL000000000000abcd"}

\* The client order id that caller t's placement request carried.
SentClientOrderId(t) == httpLog[t][Len(httpLog[t])].body.val.client_order_id

\* C6: when the order-placement call succeeds, submit_order returns an order
\* with status Submitted and filled_quantity 0 whose id is the decimal form of
\* the first vendor order id if there is one and otherwise the client token
\* ("KL" and 16 hex digits) sent with the request; the id is not empty and
\* the token is stored under extensions["client_order_id"].
C6_PlacedOrderId ==
    \A t \in Callers :
        (Returned(t, "submit_order") /\ response[t].some /\ CallSucceeded(response[t].val)) =>
            LET order == resp[t].val.order
                ids == response[t].val.body.parsed.val.order_ids
                token == SentClientOrderId(t)
            IN  /\ order.status = "Submitted"
                /\ order.filled_quantity = 0
                /\ token \in ClientTokens
                /\ Len(token) = 18
                /\ order.extensions.some
                /\ order.extensions.val.client_order_id = token
                /\ order.id # ""
                /\ order.id = IF ids.some /\ ids.val # <<>>
                              THEN DecimalText(ids.val[1]) ELSE token

\* A placement that returned the order ids 12345 and 7 has yielded order "12345".
C6_Witness ==
    /\ Returned(Main, "submit_order")
    /\ response[Main].some
    /\ CallSucceeded(response[Main].val)
    /\ response[Main].val.body.parsed.val.order_ids = Some(<<12345, 7>>)
    /\ resp[Main].val.order.id = "12345"
    /\ resp[Main].val.order.request.symbol_id = "AAPL"

\* C7: the ledger and the counter change only in a step in which a
\* submit_order call returns after a successful placement; that step maps the
\* order's id to the returned order, leaves the other entries alone and
\* advances the counter by one.  Every other step (a gated or failed
\* submit_order, initialize, get_accounts, get_positions) leaves both as they
\* are, and the ledger holds no order with status Rejected.
C7_LedgerChangesOnlyOnPlacement ==
    /\ [][/\ (orders' # orders \/ next_order_id' # next_order_id) =>
                \E t \in Callers :
                    /\ ReturnsNow(t, "submit_order")
                    /\ response'[t].some
                    /\ CallSucceeded(response'[t].val)
          /\ \A t \in Callers :
                (/\ ReturnsNow(t, "submit_order")
                 /\ response'[t].some
                 /\ CallSucceeded(response'[t].val)) =>
                    LET order == resp'[t].val.order
                    IN  /\ next_order_id' = next_order_id + 1
                        /\ DOMAIN orders' = DOMAIN orders \cup {order.id}
                        /\ orders'[order.id] = order
                        /\ \A k \in DOMAIN orders \ {order.id} : orders'[k] = orders[k]]_vars
    /\ [](\A k \in DOMAIN orders : orders[k].status # "Rejected")

\* A second placement has been recorded beside the first.
C7_Witness ==
    /\ Returned(Main, "submit_order")
    /\ next_order_id = 3
    /\ Cardinality(DOMAIN orders) = 2
    /\ resp[Main].val.order.id \in DOMAIN orders
    /\ orders[resp[Main].val.order.id] = resp[Main].val.order

\* C8 as stated: an order recorded under an id stays recorded under it,
\* unchanged, in every later state.
C8_LedgerAppendOnlyAsStated ==
    [][\A k \in DOMAIN orders : k \in DOMAIN orders' /\ orders'[k] = orders[k]]_vars

InCritical(t) == pc[t] \notin {"idle", "parsed", "returned"}

\* C10: with several callers, a caller is inside an entry point's critical
\* section exactly while it holds the session lock, so at most one is; a
\* request is with the transport executor only for the caller holding the
\* lock, so at most one is in flight; and from a caller's taking the lock to
\* its return the other callers do nothing but enter and wait, and the
\* session (client, ledger, counter) changes only in the step in which that
\* caller returns: the calls take effect one after another, in the order in
\* which they took the lock.
C10_EntryPointsAreSerialized ==
    /\ [](/\ \A t \in Callers : InCritical(t) <=> lock = t
          /\ \A t \in Callers : (inflight[t].some \/ loc[t] # NoLocals) => lock = t
          /\ Cardinality({t \in Callers : InCritical(t)}) <= 1
          /\ Cardinality({t \in Callers : inflight[t].some}) <= 1)
    /\ [][\A t \in Callers :
             InCritical(t) =>
                /\ \A u \in Callers \ {t} :
                      /\ pc'[u] # pc[u] => (pc[u] = "idle" /\ pc'[u] = "parsed")
                      /\ resp'[u] = resp[u]
                      /\ httpLog'[u] = httpLog[u]
                /\ pc'[t] # "returned" =>
                      /\ client' = client
                      /\ orders' = orders
                      /\ next_order_id' = next_order_id]_vars

\* One caller waits for the lock while another, holding it, has a request
\* with the transport executor.
C10_Witness ==
    \E t, u \in Callers :
        /\ t # u
        /\ lock = t
        /\ inflight[t].some
        /\ pc[u] = "parsed"
        /\ req[u].val.op = "initialize"

\* The message api_get / api_post report for each reply that is not a
\* success, written out.
ErrorText(r) ==
    CASE r.status = 401 -> "API error 401: unauthorized"
      [] r.status = 0 -> "API error 0: timeout"
      [] r.status = 200 -> "JSON parse error"

AccountSummaryFields ==
    {"id", "name", "broker_id", "is_paper", "balance", "positions", "extensions"}
PositionFields ==
    {"symbol_id", "quantity", "average_price", "current_price",
     "unrealized_pnl", "unrealized_pnl_percent"}
OrderFields ==
    {"id", "request", "status", "filled_quantity", "average_filled_price",
     "extensions", "persona_id"}

IsPositionList(ps) == \A k \in 1 .. Len(ps) : DOMAIN ps[k] = PositionFields

IsAccountList(as) ==
    \A k \in 1 .. Len(as) :
        /\ DOMAIN as[k] = AccountSummaryFields
        /\ IsPositionList(as[k].positions)

\* C11: in an Authenticated session every reply of the transport executor
\* (a non-success status, a body that does not deserialize, a success) takes
\* the call on to its next request or to its return, and what a call returns
\* is a well-formed response: a list of AccountSummary, a list of Position,
\* an Order.  A failed account-list call returns exactly one account, with id
\* "error" and the error message in its name; a failed order placement
\* returns an order with status Rejected, the request it was given and the
\* error message under extensions["error"]; a failed portfolio call returns
\* the empty position list.
C11_EveryOutcomeYieldsAResponse ==
    /\ [](\A t \in Callers :
            /\ Returned(t, "get_accounts") =>
                  /\ DOMAIN resp[t].val = {"accounts"}
                  /\ IsAccountList(resp[t].val.accounts)
            /\ Returned(t, "get_positions") =>
                  /\ DOMAIN resp[t].val = {"positions"}
                  /\ IsPositionList(resp[t].val.positions)
            /\ Returned(t, "submit_order") =>
                  /\ DOMAIN resp[t].val = {"order"}
                  /\ DOMAIN resp[t].val.order = OrderFields
                  /\ resp[t].val.order.status \in {"Submitted", "Rejected"})
    /\ [][\A t \in Callers :
             (client.some /\ inflight[t].some /\ pc'[t] # pc[t]) =>
                LET reply == response'[t].val
                    failed == ~CallSucceeded(reply)
                IN  /\ pc[t] = "list_accounts" =>
                          /\ pc'[t] \in {"balance", "returned"}
                          /\ failed =>
                                /\ pc'[t] = "returned"
                                /\ Len(resp'[t].val.accounts) = 1
                                /\ resp'[t].val.accounts[1].id = "error"
                                /\ resp'[t].val.accounts[1].name = "Error: " \o ErrorText(reply)
                    /\ pc[t] = "balance" => pc'[t] = "portfolio"
                    /\ pc[t] = "portfolio" => pc'[t] \in {"balance", "returned"}
                    /\ pc[t] = "get_positions" =>
                          /\ pc'[t] = "returned"
                          /\ failed => resp'[t].val.positions = <<>>
                    /\ pc[t] = "submit_order" =>
                          /\ pc'[t] = "returned"
                          /\ failed =>
                                /\ resp'[t].val.order.status = "Rejected"
                                /\ resp'[t].val.order.request = req[t].val.order
                                /\ resp'[t].val.order.extensions =
                                      Some([error |-> ErrorText(reply)])]_vars

\* On an Authenticated session, a get_accounts call whose account-list reply
\* did not deserialize has returned the one error account.
C11_Witness ==
    /\ client.some
    /\ Returned(Main, "get_accounts")
    /\ Len(httpLog[Main]) = 1
    /\ response[Main] = Some(MalformedReply)
    /\ Len(resp[Main].val.accounts) = 1
    /\ resp[Main].val.accounts[1].id = "error"
    /\ resp[Main].val.accounts[1].name = "Error: JSON parse error"

\* The two parameter lists are the same pairs in different orders.
IsReordering(p, q) ==
    /\ Len(p) = Len(q)
    /\ \A x \in {p[k] : k \in 1 .. Len(p)} \cup {q[k] : k \in 1 .. Len(q)} :
          Cardinality({k \in 1 .. Len(p) : p[k] = x})
              = Cardinality({k \in 1 .. Len(q) : q[k] = x})

FallbackPrice(row) ==
    IF row.quick.some /\ row.quick.val.last_trade.some THEN row.quick.val.last_trade.val
    ELSE IF row.cost_per_share.some THEN row.cost_per_share.val
    ELSE 0

\* The positions are the vendor's rows, in order, each at its fallback price.
PricedByFallback(positions, rows) ==
    /\ Len(positions) = Len(rows)
    /\ \A k \in 1 .. Len(rows) :
          /\ positions[k].symbol_id = rows[k].symbol
          /\ positions[k].current_price = FallbackPrice(rows[k])

\* The portfolio payload lacks PortfolioResponse, AccountPortfolio, or
\* Position in each of its portfolios.
NoPositionsInPayload(payload) ==
    \/ ~payload.response.some
    \/ ~payload.response.val.account_portfolio.some
    \/ \A k \in 1 .. Len(payload.response.val.account_portfolio.val) :
          ~payload.response.val.account_portfolio.val[k].position.some

\* C13: when the portfolio call succeeds, the positions get_positions
\* returns are the vendor's positions, in order, and the current_price of
\* each is Quick.lastTrade when the vendor sent it, otherwise costPerShare
\* when the vendor sent that, otherwise 0; a payload without
\* PortfolioResponse, AccountPortfolio or Position gives Ok with the empty
\* list, not an error.  The same holds for the positions get_accounts
\* attaches to an account.
C13_CurrentPriceFallback ==
    \A t \in Callers :
        /\ (Returned(t, "get_positions") /\ response[t].some
                /\ CallSucceeded(response[t].val)) =>
              LET payload == response[t].val.body.parsed.val
                  result == get_positions_result(api_result(response[t].val))
              IN  /\ PricedByFallback(resp[t].val.positions, ReplyRows(response[t].val))
                  /\ result.ok
                  /\ result.val = resp[t].val.positions
                  /\ NoPositionsInPayload(payload) => resp[t].val.positions = <<>>
        /\ (Returned(t, "get_accounts") /\ Len(httpLog[t]) > 1
                /\ CallSucceeded(response[t].val)) =>
              LET payload == response[t].val.body.parsed.val
                  accounts == resp[t].val.accounts
                  positions == accounts[Len(accounts)].positions
              IN  /\ PricedByFallback(positions, ReplyRows(response[t].val))
                  /\ NoPositionsInPayload(payload) => positions = <<>>

\* get_positions has returned the vendor's five positions: one at its live
\* quote, two at their cost basis, two at 0.
C13_Witness ==
    /\ Returned(Main, "get_positions")
    /\ response[Main].some
    /\ CallSucceeded(response[Main].val)
    /\ Len(resp[Main].val.positions) = 5
    /\ resp[Main].val.positions[1].current_price = 1200
    /\ resp[Main].val.positions[2].current_price = 500
    /\ resp[Main].val.positions[3].current_price = 0
    /\ resp[Main].val.positions[4].current_price = 700
    /\ resp[Main].val.positions[5].current_price = 0

\* The vendor's two hosts, and the requests of each kind, written out.
VendorHosts == {"https://api.etrade.com", "https://apisb.etrade.com"}

IsAccountListGet(h, r) ==
    r.method = "GET" /\ r.url = h \o "/v1/accounts/list"
IsBalanceGet(h, r, key) ==
    r.method = "GET"
        /\ r.url = h \o "/v1/accounts/" \o key \o "/balance?instType=BROKERAGE&realTimeNAV=true"
IsPortfolioGet(h, r, key) ==
    r.method = "GET" /\ r.url = h \o "/v1/accounts/" \o key \o "/portfolio"
IsPlaceOrderPost(h, r, id) ==
    r.method = "POST" /\ r.url = h \o "/v1/accounts/" \o id \o "/orders/place"

\* The first n requests of log are those of a get_accounts call on host h
\* for the accounts with these keys: the account list, then for each account
\* in turn its balance and its portfolio.
AccountRequestsUpTo(h, log, keys, n) ==
    /\ n <= Len(log)
    /\ n <= 1 + 2 * Len(keys)
    /\ \A k \in 1 .. n :
          IF k = 1 THEN IsAccountListGet(h, log[k])
          ELSE IF k % 2 = 0 THEN IsBalanceGet(h, log[k], keys[k \div 2])
          ELSE IsPortfolioGet(h, log[k], keys[k \div 2])

\* In a get_positions or submit_order call caller t has issued no request
\* before the session is consulted, and from then on, on an Authenticated
\* session, exactly one: it is never issued again.
SingleRequestCalls(t) ==
    /\ req[t].some /\ req[t].val.op = "get_positions" =>
          /\ Len(httpLog[t]) <= 1
          /\ pc[t] = "get_positions" \/ (pc[t] = "returned" /\ client.some) =>
                /\ Len(httpLog[t]) = 1
                /\ \E h \in VendorHosts :
                      IsPortfolioGet(h, httpLog[t][1], req[t].val.account_id)
    /\ req[t].some /\ req[t].val.op = "submit_order" =>
          /\ Len(httpLog[t]) <= 1
          /\ pc[t] = "submit_order" \/ (pc[t] = "returned" /\ client.some) =>
                /\ Len(httpLog[t]) = 1
                /\ \E h \in VendorHosts :
                      IsPlaceOrderPost(h, httpLog[t][1], req[t].val.account_id)
    /\ req[t].some /\ req[t].val.op = "initialize" => httpLog[t] = <<>>

\* While a get_accounts call is under way its requests so far are the
\* account list and then, account by account in vendor order, one balance
\* and one portfolio request.
AccountsCallUnderWay(t) ==
    (req[t].some /\ req[t].val.op = "get_accounts") =>
        LET keys == [k \in 1 .. Len(loc[t].accts) |-> loc[t].accts[k].account_id_key]
            log == httpLog[t]
        IN  /\ pc[t] \in {"parsed", "locked"} => log = <<>>
            /\ pc[t] = "list_accounts" =>
                  Len(log) = 1 /\ \E h \in VendorHosts : IsAccountListGet(h, log[1])
            /\ pc[t] = "balance" =>
                  /\ Len(log) = 2 * loc[t].i
                  /\ \E h \in VendorHosts : AccountRequestsUpTo(h, log, keys, Len(log))
            /\ pc[t] = "portfolio" =>
                  /\ Len(log) = 2 * loc[t].i + 1
                  /\ \E h \in VendorHosts : AccountRequestsUpTo(h, log, keys, Len(log))

\* The keys of the vendor accounts a get_accounts call returned; the error
\* account, which stands for a failed account-list call, has none.
ReturnedKeys(accounts) ==
    LET vendor == SelectSeq(accounts, LAMBDA a : a.extensions.some)
    IN  [k \in 1 .. Len(vendor) |-> vendor[k].extensions.val.account_id_key]

\* C14 as stated: no request is issued twice, and every get_accounts call
\* that has returned issued exactly one account-list GET, followed by one
\* balance GET and one portfolio GET per account returned.
C14_NoRetriesAsStated ==
    \A t \in Callers :
        /\ SingleRequestCalls(t)
        /\ AccountsCallUnderWay(t)
        /\ Returned(t, "get_accounts") =>
              LET keys == ReturnedKeys(resp[t].val.accounts)
              IN  /\ Len(httpLog[t]) = 1 + 2 * Len(keys)
                  /\ \E h \in VendorHosts :
                        AccountRequestsUpTo(h, httpLog[t], keys, Len(httpLog[t]))

\* C14 as amended: no request is issued twice.  On an Authenticated session
\* a submit_order call issues exactly one POST to the order-placement
\* endpoint and a get_positions call exactly one portfolio GET; a
\* get_accounts call issues exactly one account-list GET and, only if that
\* succeeded with N accounts, one balance GET and then one portfolio GET per
\* account in vendor order, 1 + 2N requests in all whether or not any of
\* them fails, and 1 request when the account-list call failed.  On an
\* Uninitialized session none of the calls issues any request.
C14_NoRetries ==
    \A t \in Callers :
        /\ SingleRequestCalls(t)
        /\ AccountsCallUnderWay(t)
        /\ Returned(t, "get_accounts") =>
              LET keys == ReturnedKeys(resp[t].val.accounts)
              IN  IF client.some
                  THEN /\ Len(httpLog[t]) = 1 + 2 * Len(keys)
                       /\ AccountRequestsUpTo(client.val.base_url, httpLog[t], keys,
                                              Len(httpLog[t]))
                       /\ client.val.base_url \in VendorHosts
                  ELSE httpLog[t] = <<>>
        /\ (pc[t] = "returned" /\ ~client.some) => httpLog[t] = <<>>

\* A get_accounts call has returned two accounts after five requests, the
\* last of which failed.
C14_Witness ==
    /\ Returned(Main, "get_accounts")
    /\ client.some
    /\ Len(resp[Main].val.accounts) = 2
    /\ Len(httpLog[Main]) = 5
    /\ ~CallSucceeded(response[Main].val)
    /\ httpLog[Main][5].url = "https://apisb.etrade.com/v1/accounts/k0/portfolio"

====
